---------------------------- MODULE Spec2Model ----------------------------
(***************************************************************************)
(* Model of alaska_scraper.py: the two-pass route reduction (scrape_route), *)
(* the run over the configured airports (run_all), the table assembly      *)
(* (build_dataframe) and the helpers compress_days and fmt_points.         *)
(*                                                                         *)
(* A Python str produced by the helpers is a sequence of one-character     *)
(* strings, so that it can be taken apart again; "" is the empty sequence. *)
(* Playwright is the environment: each awaited call is a choice among the  *)
(* outcomes the code distinguishes (a return value, or an exception that   *)
(* the surrounding try does or does not catch).                            *)
(***************************************************************************)
EXTENDS Integers, Sequences, FiniteSets, TLC

VARIABLES
    pc,          \* position of the run: see the actions
    ai,          \* run_all: index of the airport being scraped
    dir,         \* run_all: "D" (airport -> PHX) or "R" (PHX -> airport)
    page,        \* the one browser page: the calendar it is showing
    mi,          \* scrape_route: index i of the pass-1 loop
    cache,       \* scrape_route: (year, month) -> rows
    shown,       \* (year, month) -> the calendar the rows of cache were read from
    all_pts,     \* scrape_route: eligible points seen, in scan order
    all_taxes,   \* scrape_route: taxes seen, in scan order
    ret,         \* what scrape_route returned
    results,     \* run_all: iata -> column -> value
    table,       \* build_dataframe: the rows of the DataFrame
    cd_days,     \* compress_days: the argument
    cd_out,      \* compress_days: the returned str
    cd_pc,       \* compress_days: "call" or "done"
    pm_ym,       \* parse_current_month: the arguments (year, month)
    pm_texts,    \* parse_current_month: the inner text of the cells of the page
    pm_calls,    \* parse_current_month: what each call of parse_cell did
    pm_rows,     \* parse_current_month: the returned rows
    pm_pc        \* parse_current_month: "call" or "done"

vars == <<pc, ai, dir, page, mi, cache, shown, all_pts, all_taxes, ret,
          results, table, cd_days, cd_out, cd_pc,
          pm_ym, pm_texts, pm_calls, pm_rows, pm_pc>>

routeVars == <<pc, ai, dir, page, mi, cache, shown, all_pts, all_taxes, ret,
               results, table>>

compressVars == <<cd_days, cd_out, cd_pc>>

monthVars == <<pm_ym, pm_texts, pm_calls, pm_rows, pm_pc>>

---------------------------------------------------------------------------
\* Bounds of the model.

\* How many of the configured airports the run covers.
NumAirports == 2

\* How many months of the configured window are scanned.
NumMonths == 2

\* The most calendar cells with an offer that one rendered month holds.
MaxCells == 2

\* The longest list handed to compress_days.
MaxLen == 3

---------------------------------------------------------------------------
\* Configuration.

\* None where the code holds an int, and where it holds a str.
None == 0 - 1
NoTax == "None"

\* Entries of AIRPORTS in the dictionary's order, one per distinct threshold
\* first; the run covers the first NumAirports of them.
AirportPool == <<"ABQ", "AUS", "BOI", "DEN", "DFW">>

Threshold(iata) ==
    CASE iata = "ABQ" -> 4500
      [] iata = "AUS" -> 7500
      [] iata = "BOI" -> 5000
      [] iata = "DEN" -> 4500
      [] OTHER -> 7500

AIRPORTS == SubSeq(AirportPool, 1, NumAirports)

DESTINATION == "PHX"

AllMonths ==
    << <<2026, 3>>, <<2026, 4>>, <<2026, 5>>, <<2026, 6>>, <<2026, 7>>,
       <<2026, 8>>, <<2026, 9>>, <<2026, 10>>, <<2026, 11>>, <<2026, 12>>,
       <<2027, 1>> >>

MONTHS == SubSeq(AllMonths, 1, NumMonths)

MonthName(m) ==
    <<"Jan", "Feb", "Mar", "Apr", "May", "Jun",
      "Jul", "Aug", "Sep", "Oct", "Nov", "Dec">>[m]

MONTH_LABELS(ym) == MonthName(ym[2]) \o " " \o ToString(ym[1])

MonthSet == {MONTHS[k] : k \in 1..Len(MONTHS)}

LabelSet == {MONTH_LABELS(ym) : ym \in MonthSet}

\* calendar.monthrange(year, month)[1]
monthrange(year, month) ==
    IF month = 2
    THEN IF (year % 4 = 0 /\ year % 100 # 0) \/ year % 400 = 0 THEN 29 ELSE 28
    ELSE IF month \in {4, 6, 9, 11} THEN 30 ELSE 31

---------------------------------------------------------------------------
\* Helpers on sequences.

Range(s) == {s[k] : k \in 1..Len(s)}

SetMin(S) == CHOOSE x \in S : \A y \in S : x <= y

RECURSIVE sorted(_)
\* sorted(set(...)): the elements of S, ascending
sorted(S) ==
    IF S = {} THEN <<>> ELSE <<SetMin(S)>> \o sorted(S \ {SetMin(S)})

RECURSIVE Flatten(_)
Flatten(ss) == IF ss = <<>> THEN <<>> ELSE Head(ss) \o Flatten(Tail(ss))

\* Sequences over S of length at most n.
SeqsUpTo(S, n) == UNION {[1..k -> S] : k \in 0..n}

Digit(d) == <<"0", "1", "2", "3", "4", "5", "6", "7", "8", "9">>[d + 1]

RECURSIVE str(_)
\* str(n) for an int n >= 0
str(n) == IF n < 10 THEN <<Digit(n)>> ELSE str(n \div 10) \o <<Digit(n % 10)>>

DigitValue(ch) == CHOOSE d \in 0..9 : Digit(d) = ch

RECURSIVE ParseInt(_)
\* int(chars) for a str of digits; 0 for the empty str
ParseInt(chars) ==
    IF chars = <<>> THEN 0
    ELSE 10 * ParseInt(SubSeq(chars, 1, Len(chars) - 1)) + DigitValue(chars[Len(chars)])

RECURSIVE Concat(_)
\* The characters of chars as one string.
Concat(chars) == IF chars = <<>> THEN "" ELSE Head(chars) \o Concat(Tail(chars))

\* The index of the first ch in chars, 0 when there is none.
Find(chars, ch) ==
    IF ch \in Range(chars) THEN SetMin({k \in 1..Len(chars) : chars[k] = ch}) ELSE 0

---------------------------------------------------------------------------
\* compress_days and fmt_points.

\* RunPart that renders a run by its first day alone
RunPartFirstOnly(start, prev) == str(start)

\* str(start) if start == prev else f"{start}-{prev}"
RunPart(start, prev) ==
    IF start = prev THEN str(start) ELSE str(start) \o <<"-">> \o str(prev)

RECURSIVE CompressLoopMerging(_, _, _, _)
\* CompressLoop with the run test d == prev + 1 weakened to d >= prev + 1
CompressLoopMerging(rest, start, prev, parts) ==
    IF rest = <<>>
    THEN Append(parts, RunPart(start, prev))
    ELSE IF Head(rest) >= prev + 1
         THEN CompressLoopMerging(Tail(rest), start, Head(rest), parts)
         ELSE CompressLoopMerging(Tail(rest), Head(rest), Head(rest),
                                  Append(parts, RunPart(start, prev)))

RECURSIVE CompressLoop(_, _, _, _)
\* the for loop of compress_days and the append after it
CompressLoop(rest, start, prev, parts) ==
    IF rest = <<>>
    THEN Append(parts, RunPart(start, prev))
    ELSE IF Head(rest) = prev + 1
         THEN CompressLoop(Tail(rest), start, Head(rest), parts)
         ELSE CompressLoop(Tail(rest), Head(rest), Head(rest),
                           Append(parts, RunPart(start, prev)))

RECURSIVE Join(_)
\* ",".join(parts)
Join(parts) ==
    IF parts = <<>> THEN <<>>
    ELSE IF Len(parts) = 1 THEN parts[1]
    ELSE parts[1] \o <<",">> \o Join(Tail(parts))

compress_days(days) ==
    IF days = <<>> THEN <<>>
    ELSE LET ds == sorted(Range(days))
         IN  Join(CompressLoop(Tail(ds), ds[1], ds[1], <<>>))

\* f"{pts // 1000}k" if pts % 1000 == 0 else f"{pts / 1000:.1f}k".  The .1f
\* rounds to the nearest tenth; a tie (pts % 100 = 50) depends on the binary
\* value of pts / 1000 and no such pts is drawn in this model.
fmt_points(pts) ==
    IF pts % 1000 = 0
    THEN str(pts \div 1000) \o <<"k">>
    ELSE LET tenths == (pts + 50) \div 100
         IN  str(tenths \div 10) \o <<".">> \o <<Digit(tenths % 10)>> \o <<"k">>

---------------------------------------------------------------------------
\* parse_cell.

\* A calendar cell that parse_cell accepts, as the (day, points, tax) it yields.
Cell(day, pts, tax) == [day |-> day, pts |-> pts, tax |-> tax]

IsDigit(ch) == ch \in {Digit(d) : d \in 0..9}

\* \s, and what str.strip() removes
IsSpace(ch) == ch \in {" ", "\n", "\t"}

\* [\d.]
IsNumChar(ch) == IsDigit(ch) \/ ch = "."

\* The last index of the longest run of characters satisfying P that starts
\* at index i of text; i - 1 when text[i] does not satisfy P.
RunEnd(text, i, P(_)) ==
    LET others == {k \in i..Len(text) : ~P(text[k])}
    IN  IF others = {} THEN Len(text) ELSE SetMin(others) - 1

\* text.strip()
strip(text) ==
    LET inked == {k \in 1..Len(text) : ~IsSpace(text[k])}
    IN  IF inked = {} THEN <<>>
        ELSE SubSeq(text, SetMin(inked), CHOOSE k \in inked : \A j \in inked : j <= k)

\* re.match(r"^(\d{1,2})", text): how many characters group 1 has, 0 when
\* there is no match
DayMatch(text) ==
    IF RunEnd(text, 1, IsDigit) >= 2 THEN 2 ELSE RunEnd(text, 1, IsDigit)

\* re.search(r"([\d.]+)k", text, re.IGNORECASE): where a match can start.
\* [\d.]+ is greedy and k is not in [\d.], so a match at i takes the whole
\* run of [\d.] from i, and the run must end right before a k or K.
PointsStarts(text) ==
    {i \in 1..Len(text) :
        /\ IsNumChar(text[i])
        /\ RunEnd(text, i, IsNumChar) < Len(text)
        /\ text[RunEnd(text, i, IsNumChar) + 1] \in {"k", "K"}}

\* group 1 of the leftmost match
PointsGroup(text) ==
    SubSeq(text, SetMin(PointsStarts(text)),
           RunEnd(text, SetMin(PointsStarts(text)), IsNumChar))

\* Whether float(g) takes a str g of digits and dots: it wants a digit and
\* at most one dot, and raises ValueError otherwise.
FloatAccepts(g) ==
    /\ \E k \in 1..Len(g) : IsDigit(g[k])
    /\ Cardinality({k \in 1..Len(g) : g[k] = "."}) <= 1

\* int(float(g) * 1000) for a g that float takes: the thousandths of g, the
\* digits after the third decimal dropped.  (The product is a binary float:
\* for a few g, "1.001" among them, it falls just under the exact product and
\* int gives one less.  No number drawn here is one of those.)
Thousandths(g) ==
    LET dot == Find(g, ".")
        whole == IF dot = 0 THEN g ELSE SubSeq(g, 1, dot - 1)
        frac == IF dot = 0 THEN <<>> ELSE SubSeq(g, dot + 1, Len(g))
        frac3 == SubSeq(frac \o <<"0", "0", "0">>, 1, 3)
    IN  ParseInt(whole) * 1000 + ParseInt(frac3)

\* re.search(r"\+\s*\$(\d+(?:\.\d{1,2})?)", text): where a match can start
TaxStarts(text) ==
    {p \in 1..Len(text) :
        /\ text[p] = "+"
        /\ RunEnd(text, p + 1, IsSpace) + 2 <= Len(text)
        /\ text[RunEnd(text, p + 1, IsSpace) + 1] = "$"
        /\ IsDigit(text[RunEnd(text, p + 1, IsSpace) + 2])}

\* group 1 of the leftmost match: the digits, then a dot and one or two
\* digits when they follow
TaxGroup(text) ==
    LET first == RunEnd(text, SetMin(TaxStarts(text)) + 1, IsSpace) + 2
        last == RunEnd(text, first, IsDigit)
        cents == IF last + 2 <= Len(text) /\ text[last + 1] = "."
                    /\ IsDigit(text[last + 2])
                 THEN IF last + 3 <= Len(text) /\ IsDigit(text[last + 3])
                      THEN 3 ELSE 2
                 ELSE 0
    IN  SubSeq(text, first, last + cents)

\* What a call of parse_cell does: it returns (day, points, tax), returns
\* None, or raises.
Parsed(cell) == [kind |-> "ok", cell |-> cell]
NotParseable == [kind |-> "none", cell |-> Cell(0, 0, NoTax)]
Raises == [kind |-> "raise", cell |-> Cell(0, 0, NoTax)]

parse_cell(raw_text) ==
    LET text == strip(raw_text)
    IN  IF DayMatch(text) = 0 THEN NotParseable
        ELSE IF PointsStarts(text) = {} THEN NotParseable
        ELSE IF ~FloatAccepts(PointsGroup(text)) THEN Raises
        ELSE Parsed(Cell(ParseInt(SubSeq(text, 1, DayMatch(text))),
                         Thousandths(PointsGroup(text)),
                         IF TaxStarts(text) = {} THEN NoTax
                         ELSE "$" \o Concat(TaxGroup(text))))

---------------------------------------------------------------------------
\* The rendered calendar.

\* The cells a rendered month may hold: a price at the lowest threshold with
\* and without a tax, and a price one point above it on day 31.
Cells ==
    { Cell(1, 4500, "$19"), Cell(2, 4500, NoTax), Cell(31, 4501, "$6") }

\* The cell lists of the months the site may render.
CalendarPages == SeqsUpTo(Cells, MaxCells)

\* What parse_cell makes of the cell "5\n0k": an offer at 0 points.
FreeCell == Cell(5, 0, NoTax)

\* The months of a site with at most one offer a month, an offer at 0 points
\* among them.
SparsePages == SeqsUpTo(Cells \cup {FreeCell}, 1)

\* The page when no calendar is rendered.
BlankPage == [origin |-> "", dest |-> "", ym |-> <<0, 0>>, rows |-> <<>>]

Calendar(o, d, ym, rows) == [origin |-> o, dest |-> d, ym |-> ym, rows |-> rows]

NextMonth(ym) == IF ym[2] = 12 THEN <<ym[1] + 1, 1>> ELSE <<ym[1], ym[2] + 1>>


---------------------------------------------------------------------------
\* scrape_route: the pure parts.

\* The arguments run_all passes for airport ai and direction dir.
Origin == IF dir = "D" THEN AIRPORTS[ai] ELSE DESTINATION
Dest == IF dir = "D" THEN DESTINATION ELSE AIRPORTS[ai]
MaxPts == Threshold(AIRPORTS[ai])

\* parse_current_month without the lower end of the day test
parse_current_month_upper_only(pg, year, month) ==
    LET max_day == monthrange(year, month)
        InMonth(c) == c.day <= max_day
    IN  SelectSeq(pg.rows, InMonth)

\* parse_current_month: the parsed cells of whatever is rendered, those whose
\* day is a day of (year, month)
parse_current_month(pg, year, month) ==
    LET max_day == monthrange(year, month)
        InMonth(c) == 1 <= c.day /\ c.day <= max_day
    IN  SelectSeq(pg.rows, InMonth)

\* lines 483-487, 491-492: the cells of the page that parse_cell accepts; a
\* cell for which it returns None or raises is passed over
ParsedCells(texts) ==
    LET Accepted(t) == parse_cell(t).kind = "ok"
        kept == SelectSeq(texts, Accepted)
    IN  [k \in 1..Len(kept) |-> parse_cell(kept[k]).cell]

\* EligiblePts without the threshold test
EligiblePtsAll(raw, max_pts) == [k \in 1..Len(raw) |-> raw[k].pts]

\* EligiblePts with pts <= max_pts narrowed to pts < max_pts
EligiblePtsStrict(raw, max_pts) ==
    LET Below(c) == c.pts < max_pts
        kept == SelectSeq(raw, Below)
    IN  [k \in 1..Len(kept) |-> kept[k].pts]

\* what the loop "for _, pts, tax in raw" appends to all_pts
EligiblePts(raw, max_pts) ==
    LET Within(c) == c.pts <= max_pts
        kept == SelectSeq(raw, Within)
    IN  [k \in 1..Len(kept) |-> kept[k].pts]

\* what the loop "for _, pts, tax in raw" appends to all_taxes: "if tax" is
\* not under "if pts <= max_pts"
TaxesSeen(raw) ==
    LET HasTax(c) == c.tax # NoTax
        kept == SelectSeq(raw, HasTax)
    IN  [k \in 1..Len(kept) |-> kept[k].tax]

\* all_taxes.count(t)
Count(s, t) == Cardinality({k \in 1..Len(s) : s[k] = t})

\* The values max(set(all_taxes), key=all_taxes.count) can return: max keeps
\* the first greatest element in the set's iteration order, and the order in
\* which a set of str iterates is not fixed.
TaxModes(taxes) ==
    {t \in Range(taxes) : \A u \in Range(taxes) : Count(taxes, u) <= Count(taxes, t)}

\* min(all_pts)
abs_min_of(pts) == SetMin(Range(pts))

\* MatchingDays with pts == abs_min weakened to pts >= abs_min
MatchingDaysAtLeast(rows, abs_min) ==
    LET AtLeast(c) == c.pts >= abs_min
        kept == SelectSeq(rows, AtLeast)
    IN  [k \in 1..Len(kept) |-> kept[k].day]

\* MatchingDays stopping at the first day that matches
MatchingDaysFirstOnly(rows, abs_min) ==
    LET AtMin(c) == c.pts = abs_min
        kept == SelectSeq(rows, AtMin)
    IN  IF kept = <<>> THEN <<>> ELSE <<kept[1].day>>

\* [d for d, pts, _ in cache[(year, month)] if pts == abs_min]
MatchingDays(rows, abs_min) ==
    LET AtMin(c) == c.pts = abs_min
        kept == SelectSeq(rows, AtMin)
    IN  [k \in 1..Len(kept) |-> kept[k].day]

\* {lbl: "" for lbl in MONTH_LABELS.values()}, None, None
EmptyResult ==
    [month_days |-> [lbl \in LabelSet |-> <<>>], abs_min |-> None,
     typical_tax |-> NoTax]

\* ret before scrape_route has returned
NoResult == [month_days |-> <<>>, abs_min |-> None, typical_tax |-> NoTax]

\* What fill_and_search can do: return True, return False, or let an
\* exception of page.goto other than PWTimeout through.
FillOutcomes == {"submitted", "not_submitted", "error"}

\* What wait_for_results can do: return True, return False, or let an
\* exception of page.wait_for_selector other than PWTimeout through.
WaitOutcomes == {"rendered", "nothing", "error"}

\* The page after a submit or a wait that failed: as it was, or no calendar.
AfterFailure(pg) == {pg, BlankPage}

---------------------------------------------------------------------------
\* scrape_route: the steps.

\* lines 512-518: submit the form for the first month
FillAndSearchFirst ==
    /\ pc = "call"
    /\ \E out \in FillOutcomes :
         \/ /\ out = "submitted"
            /\ pc' = "wait"
            /\ UNCHANGED <<page, ret>>
         \/ /\ out = "not_submitted"
            /\ page' \in AfterFailure(page)
            /\ ret' = EmptyResult
            /\ pc' = "returned"
         \/ /\ out = "error"
            /\ pc' = "crashed"
            /\ UNCHANGED <<page, ret>>
    /\ UNCHANGED <<ai, dir, mi, cache, shown, all_pts, all_taxes, results, table>>
    /\ UNCHANGED compressVars
    /\ UNCHANGED monthVars

\* lines 520-528: wait for the first month's results, then enter pass 1
WaitForResultsFirst(Pages) ==
    /\ pc = "wait"
    /\ \E out \in WaitOutcomes :
         \/ /\ out = "rendered"
            /\ \E rows \in Pages :
                 page' = Calendar(Origin, Dest, MONTHS[1], rows)
            /\ mi' = 1
            /\ pc' = "parse"
            /\ UNCHANGED ret
         \/ /\ out = "nothing"
            /\ page' \in AfterFailure(page)
            /\ ret' = EmptyResult
            /\ pc' = "returned"
            /\ UNCHANGED mi
         \/ /\ out = "error"
            /\ pc' = "crashed"
            /\ UNCHANGED <<page, ret, mi>>
    /\ UNCHANGED <<ai, dir, cache, shown, all_pts, all_taxes, results, table>>
    /\ UNCHANGED compressVars
    /\ UNCHANGED monthVars

\* lines 535-543: for i > 0, click Next Month of the calendar on the page,
\* or re-submit the form when no button was clicked; what fill_and_search
\* and wait_for_results return there is not looked at
Pass1Advance(Pages) ==
    /\ pc = "advance"
    /\ \/ /\ page.ym # <<0, 0>>        \* clicked: the calendar moves on a month
          /\ \E rows \in Pages :
               page' = Calendar(page.origin, page.dest, NextMonth(page.ym), rows)
          /\ pc' = "parse"
       \/ \E fill \in FillOutcomes, wait \in WaitOutcomes :
            \/ /\ fill = "submitted" /\ wait = "rendered"
               /\ \E rows \in Pages :
                    page' = Calendar(Origin, Dest, MONTHS[mi], rows)
               /\ pc' = "parse"
            \/ /\ fill # "error" /\ wait # "error"
               /\ ~(fill = "submitted" /\ wait = "rendered")
               /\ page' \in AfterFailure(page)
               /\ pc' = "parse"
            \/ /\ fill = "error" \/ wait = "error"
               /\ page' = page
               /\ pc' = "crashed"
    /\ UNCHANGED <<ai, dir, mi, cache, shown, all_pts, all_taxes, ret, results, table>>
    /\ UNCHANGED compressVars
    /\ UNCHANGED monthVars

\* lines 545-556: parse what is rendered, cache it under (year, month) and
\* tally its points and taxes
Pass1Parse ==
    /\ pc = "parse"
    /\ LET ym == MONTHS[mi]
           raw == parse_current_month(page, ym[1], ym[2])
       IN  /\ cache' = (ym :> raw) @@ cache
           /\ shown' = (ym :> [origin |-> page.origin, dest |-> page.dest,
                               ym |-> page.ym]) @@ shown
           /\ all_pts' = all_pts \o EligiblePts(raw, MaxPts)
           /\ all_taxes' = all_taxes \o TaxesSeen(raw)
    /\ IF mi < Len(MONTHS)
       THEN mi' = mi + 1 /\ pc' = "advance"
       ELSE mi' = mi /\ pc' = "reduce"
    /\ UNCHANGED <<ai, dir, page, ret, results, table>>
    /\ UNCHANGED compressVars
    /\ UNCHANGED monthVars

\* lines 558-575: the no-availability return, the minimum, the tax, pass 2
Reduce ==
    /\ pc = "reduce"
    /\ IF all_pts = <<>>
       THEN ret' = EmptyResult
       ELSE LET abs_min == abs_min_of(all_pts)
            IN  \E typical_tax \in
                    (IF all_taxes # <<>> THEN TaxModes(all_taxes) ELSE {NoTax}) :
                  ret' = [month_days |->
                             [lbl \in LabelSet |->
                                MatchingDays(
                                  cache[CHOOSE ym \in MonthSet : MONTH_LABELS(ym) = lbl],
                                  abs_min)],
                          abs_min |-> abs_min,
                          typical_tax |-> typical_tax]
    /\ pc' = "returned"
    /\ UNCHANGED <<ai, dir, page, mi, cache, shown, all_pts, all_taxes, results, table>>
    /\ UNCHANGED compressVars
    /\ UNCHANGED monthVars

---------------------------------------------------------------------------
\* run_all and build_dataframe.

\* data.get(key, default)
Get(data, key, default) == IF key \in DOMAIN data THEN data[key] ELSE default

\* the entries results[iata][f"{lbl} D"] = compress_days(days) of one direction
DayColumns(month_days, sfx) ==
    [col \in {lbl \o sfx : lbl \in DOMAIN month_days} |->
        compress_days(month_days[CHOOSE lbl \in DOMAIN month_days : lbl \o sfx = col])]

\* lines 591-595: the next airport; results[iata] = {}
BeginAirport ==
    /\ pc = "airport"
    /\ results' = (AIRPORTS[ai] :> <<>>) @@ results
    /\ dir' = "D"
    /\ pc' = "call"
    /\ UNCHANGED <<ai, page, mi, cache, shown, all_pts, all_taxes, ret, table>>
    /\ UNCHANGED compressVars
    /\ UNCHANGED monthVars

\* lines 598-609: store what scrape_route returned for this direction, then
\* go on to the other direction, the next airport or the end of the loop;
\* the locals of the scrape_route call are gone
RunAllStore ==
    /\ pc = "returned"
    /\ LET iata == AIRPORTS[ai]
           sfx == IF dir = "D" THEN " D" ELSE " R"
           pts == IF dir = "D" THEN "pts_d" ELSE "pts_r"
           tax == IF dir = "D" THEN "tax_d" ELSE "tax_r"
           data == (tax :> ret.typical_tax) @@ (pts :> ret.abs_min)
                     @@ DayColumns(ret.month_days, sfx) @@ results[iata]
       IN  results' = [results EXCEPT ![iata] = data]
    /\ IF dir = "D"
       THEN dir' = "R" /\ ai' = ai /\ pc' = "call"
       ELSE /\ dir' = dir
            /\ IF ai < Len(AIRPORTS)
               THEN ai' = ai + 1 /\ pc' = "airport"
               ELSE ai' = ai /\ pc' = "build"
    /\ mi' = 0
    /\ cache' = <<>>
    /\ shown' = <<>>
    /\ all_pts' = <<>>
    /\ all_taxes' = <<>>
    /\ ret' = NoResult
    /\ UNCHANGED <<page, table>>
    /\ UNCHANGED compressVars
    /\ UNCHANGED monthVars

\* month_cols of build_dataframe
month_cols ==
    Flatten([k \in 1..Len(MONTHS) |->
               <<MONTH_LABELS(MONTHS[k]) \o " D", MONTH_LABELS(MONTHS[k]) \o " R">>])

\* all_cols of build_dataframe
all_cols ==
    <<"To", "From", "Alt Origins", "Feb 2026 D", "Feb 2026 R">>
      \o month_cols
      \o <<"Feb 2027 D", "Feb 2027 R", "Points (To PHX)", "Points (From PHX)",
           "Taxes (To PHX)", "Taxes (From PHX)">>

\* fmt_points(pts) if pts else ""
PointsColumn(pts) == IF pts # None /\ pts # 0 THEN fmt_points(pts) ELSE <<>>

\* data.get("tax_d") or ""
TaxColumn(tax) == IF tax # NoTax /\ tax # "" THEN tax ELSE ""

\* the row build_dataframe makes of results[iata]
Row(iata, data) ==
    [col \in Range(all_cols) |->
        CASE col = "To" -> DESTINATION
          [] col = "From" -> iata
          [] col = "Alt Origins" -> ""
          [] col \in {"Feb 2026 D", "Feb 2026 R", "Feb 2027 D", "Feb 2027 R"} -> <<>>
          [] col = "Points (To PHX)" -> PointsColumn(Get(data, "pts_d", None))
          [] col = "Points (From PHX)" -> PointsColumn(Get(data, "pts_r", None))
          [] col = "Taxes (To PHX)" -> TaxColumn(Get(data, "tax_d", NoTax))
          [] col = "Taxes (From PHX)" -> TaxColumn(Get(data, "tax_r", NoTax))
          [] OTHER -> Get(data, col, <<>>)]

\* results.items(): the airports in the order they were put in
ResultKeys ==
    LET Scraped(iata) == iata \in DOMAIN results
    IN  SelectSeq(AIRPORTS, Scraped)

\* lines 615-646, after run_all has returned
BuildDataframe ==
    /\ pc = "build"
    /\ table' = [k \in 1..Len(ResultKeys) |-> Row(ResultKeys[k], results[ResultKeys[k]])]
    /\ pc' = "done"
    /\ UNCHANGED <<ai, dir, page, mi, cache, shown, all_pts, all_taxes, ret, results>>
    /\ UNCHANGED compressVars
    /\ UNCHANGED monthVars

---------------------------------------------------------------------------
\* compress_days as a call of its own.

\* The days the lists handed to compress_days are drawn from.
DaySample == {1, 2, 3, 7, 9, 10, 11, 31}

Compress ==
    /\ cd_pc = "call"
    /\ cd_out' = compress_days(cd_days)
    /\ cd_pc' = "done"
    /\ UNCHANGED cd_days
    /\ UNCHANGED routeVars
    /\ UNCHANGED monthVars

---------------------------------------------------------------------------
\* parse_current_month as a call of its own.

\* The (year, month) it is called with: months of the window, and the
\* Februaries of a common and of a leap year.
MonthSample == { <<2026, 3>>, <<2026, 4>>, <<2026, 2>>, <<2028, 2>> }

\* The inner texts of the cells of a page: offers with and without a tax, an
\* offer at 0 points, days 0, 29 and 31, a cell with no day, a cell with no
\* price, and cells whose price is not a number.
TextSample ==
    { <<"1", "\n", "4", ".", "5", "k", " ", "+", "$", "1", "9">>,
      <<"9", "\n", "2", "0", "k", " ", "+", "$", "6">>,
      <<"3", "1", "\n", "5", "k">>,
      <<"2", "9", "\n", "7", ".", "5", "K", " ", "+", " ", "$", "5", ".", "6", "0">>,
      <<"0", "\n", "5", "k">>,
      <<"5", "\n", "0", "k">>,
      <<"S", "u", "n">>,
      <<"1", "2">>,
      <<"3", "\n", ".", "k">>,
      <<"3", "\n", "1", ".", "2", ".", "3", "k">> }

ParseCurrentMonth ==
    /\ pm_pc = "call"
    /\ pm_calls' = [k \in 1..Len(pm_texts) |-> parse_cell(pm_texts[k])]
    /\ pm_rows' = parse_current_month([rows |-> ParsedCells(pm_texts)],
                                      pm_ym[1], pm_ym[2])
    /\ pm_pc' = "done"
    /\ UNCHANGED <<pm_ym, pm_texts>>
    /\ UNCHANGED routeVars
    /\ UNCHANGED compressVars

---------------------------------------------------------------------------
\* Specifications.

RouteIdle ==
    /\ page = BlankPage
    /\ mi = 0
    /\ cache = <<>>
    /\ shown = <<>>
    /\ all_pts = <<>>
    /\ all_taxes = <<>>
    /\ ret = NoResult
    /\ results = <<>>
    /\ table = <<>>

CompressIdle ==
    /\ cd_days = <<>>
    /\ cd_out = <<>>
    /\ cd_pc = "idle"

MonthIdle ==
    /\ pm_ym = <<0, 0>>
    /\ pm_texts = <<>>
    /\ pm_calls = <<>>
    /\ pm_rows = <<>>
    /\ pm_pc = "idle"

\* The program: run_all over the airports, then build_dataframe, against a
\* site with at most one offer a month.
Init ==
    /\ pc = "airport"
    /\ ai = 1
    /\ dir = "D"
    /\ RouteIdle
    /\ CompressIdle
    /\ MonthIdle

Next ==
    \/ BeginAirport
    \/ FillAndSearchFirst
    \/ WaitForResultsFirst(SparsePages)
    \/ Pass1Advance(SparsePages)
    \/ Pass1Parse
    \/ Reduce
    \/ RunAllStore
    \/ BuildDataframe

Spec == Init /\ [][Next]_vars

\* One call scrape_route(page, origin, dest, max_pts), with the arguments
\* run_all passes for some airport and direction.
InitRoute ==
    /\ pc = "call"
    /\ ai \in 1..Len(AIRPORTS)
    /\ dir \in {"D", "R"}
    /\ RouteIdle
    /\ CompressIdle
    /\ MonthIdle

NextRoute ==
    \/ FillAndSearchFirst
    \/ WaitForResultsFirst(CalendarPages)
    \/ Pass1Advance(CalendarPages)
    \/ Pass1Parse
    \/ Reduce

SpecRoute == InitRoute /\ [][NextRoute]_vars

\* One call compress_days(days).
InitCompress ==
    /\ pc = "idle"
    /\ ai = 1
    /\ dir = "D"
    /\ RouteIdle
    /\ cd_days \in SeqsUpTo(DaySample, MaxLen) \cup {sorted(S) : S \in SUBSET DaySample}
    /\ cd_out = <<>>
    /\ cd_pc = "call"
    /\ MonthIdle

NextCompress == Compress

SpecCompress == InitCompress /\ [][NextCompress]_vars

\* One call parse_current_month(page, year, month).
InitMonth ==
    /\ pc = "idle"
    /\ ai = 1
    /\ dir = "D"
    /\ RouteIdle
    /\ CompressIdle
    /\ pm_ym \in MonthSample
    /\ pm_texts \in SeqsUpTo(TextSample, MaxCells)
    /\ pm_calls = <<>>
    /\ pm_rows = <<>>
    /\ pm_pc = "call"

NextMonthCall == ParseCurrentMonth

SpecMonth == InitMonth /\ [][NextMonthCall]_vars

---------------------------------------------------------------------------
\* Properties of scrape_route, under SpecRoute.

Returned == pc = "returned"

\* Every record of the cache, whatever its month.
CachedRows == UNION {Range(cache[ym]) : ym \in DOMAIN cache}

\* The records of the cache priced at or under the route's threshold.
EligibleCached == {c \in CachedRows : c.pts <= MaxPts}

\* The days listed for month ym in what scrape_route returned.
Listed(ym) == Range(ret.month_days[MONTH_LABELS(ym)])

\* C1: every day listed for a month in the returned month_days has a record
\* in that month's cache whose points equal the returned absolute minimum.
C1_ListedDaysAtMinimum ==
    Returned =>
      \A ym \in MonthSet : \A d \in Listed(ym) :
         /\ ym \in DOMAIN cache
         /\ \E c \in Range(cache[ym]) : c.day = d /\ c.pts = ret.abs_min

\* A route returned with a day listed while a dearer record, still within
\* the threshold, sits in the cache on a day that is not listed.
C1_Witness ==
    /\ Returned
    /\ \E ym \in DOMAIN cache :
         /\ Listed(ym) # {}
         /\ \E c \in Range(cache[ym]) :
              c.pts > ret.abs_min /\ c.pts <= MaxPts /\ c.day \notin Listed(ym)

\* C2: when the cache holds a record with points <= threshold, the returned
\* absolute minimum is the least points value among the records of all
\* months with points <= threshold (a record at the threshold counts, one
\* a point above it does not).
C2_MinimumOverEligible ==
    (Returned /\ EligibleCached # {}) =>
      ret.abs_min = SetMin({c.pts : c \in EligibleCached})

\* A route whose only eligible records are priced exactly at the threshold,
\* next to a record one point above it: the minimum is the threshold.
C2_Witness ==
    /\ Returned
    /\ EligibleCached # {}
    /\ \A c \in EligibleCached : c.pts = MaxPts
    /\ \E c \in CachedRows : c.pts = MaxPts + 1
    /\ ret.abs_min = MaxPts

\* C3: when no cached record of any month has points <= threshold, what is
\* returned has an empty day list for every month of the window, no minimum
\* and no tax; and once every month is cached the call does not end in an
\* exception.
C3_NoAvailabilityResult ==
    (pc \in {"reduce", "returned", "crashed"} /\ EligibleCached = {}) =>
      /\ pc # "crashed" \/ DOMAIN cache # MonthSet
      /\ Returned =>
           /\ DOMAIN ret.month_days = LabelSet
           /\ \A lbl \in LabelSet : ret.month_days[lbl] = <<>>
           /\ ret.abs_min = None
           /\ ret.typical_tax = NoTax

\* Every month was scanned, offers were found, all of them above the
\* threshold, and the route returned with nothing.
C3_Witness ==
    /\ Returned
    /\ DOMAIN cache = MonthSet
    /\ CachedRows # {}
    /\ EligibleCached = {}
    /\ ret = EmptyResult

\* C5: a month whose rows were read from a page that was not showing that
\* month of this route (the fetch for it failed) has no rows in the cache.
C5_FailedMonthCachesNothing ==
    \A ym \in DOMAIN cache :
       shown[ym] # [origin |-> Origin, dest |-> Dest, ym |-> ym] => cache[ym] = <<>>

\* C6: a route that has returned has scanned every month of the window,
\* whichever single month's fetch failed.
C6_EveryMonthScanned == Returned => DOMAIN cache = MonthSet

\* The taxes of the cached records with points <= threshold, in scan order.
EligibleTaxes ==
    Flatten([k \in 1..Len(MONTHS) |->
               IF MONTHS[k] \in DOMAIN cache
               THEN LET Counted(c) == c.tax # NoTax /\ c.pts <= MaxPts
                        kept == SelectSeq(cache[MONTHS[k]], Counted)
                    IN  [j \in 1..Len(kept) |-> kept[j].tax]
               ELSE <<>>])

\* C7: when a route has a minimum, its tax is a most frequent tax among the
\* records with a tax and points <= threshold, and undefined when no such
\* record carries a tax.
C7_TaxFromEligibleOnly ==
    (Returned /\ ret.abs_min # None) =>
      IF EligibleTaxes = <<>>
      THEN ret.typical_tax = NoTax
      ELSE ret.typical_tax \in TaxModes(EligibleTaxes)

\* The most frequent value of s that comes first in s.
FirstMode(s) == s[SetMin({k \in 1..Len(s) : s[k] \in TaxModes(s)})]

\* C8: among the taxes tied for the highest count, the returned tax is the
\* one met first in scan order.
C8_TieFirstEncountered ==
    (Returned /\ ret.abs_min # None /\ all_taxes # <<>>) =>
      ret.typical_tax = FirstMode(all_taxes)

---------------------------------------------------------------------------
\* Properties of the run, under Spec.

\* C4: once the run is over, however it ended, the table has one row for
\* each configured airport, in order.
C4_OneRowPerAirport ==
    pc \in {"done", "crashed"} =>
      /\ Len(table) = Len(AIRPORTS)
      /\ \A k \in 1..Len(AIRPORTS) : table[k]["From"] = AIRPORTS[k]

\* The month date columns of one direction in a row of the table.
DateColumns(row, sfx) == {row[MONTH_LABELS(ym) \o sfx] : ym \in MonthSet}

\* C14: in every row of the table and for each direction, if some month date
\* column of the direction is not empty then its Points column is not empty
\* and is the formatted absolute minimum of the direction, whatever that
\* minimum is, 0 points included.
C14_PointsShownWithDates ==
    pc = "done" =>
      \A k \in 1..Len(table) :
        LET row == table[k]
            data == results[row["From"]]
        IN  /\ DateColumns(row, " D") # {<<>>} =>
                 /\ row["Points (To PHX)"] # <<>>
                 /\ row["Points (To PHX)"] = fmt_points(data["pts_d"])
            /\ DateColumns(row, " R") # {<<>>} =>
                 /\ row["Points (From PHX)"] # <<>>
                 /\ row["Points (From PHX)"] = fmt_points(data["pts_r"])

---------------------------------------------------------------------------
\* Properties of compress_days, under SpecCompress.

\* The maximal runs of consecutive integers of S, as <<first, last>>.
Runs(S) ==
    {r \in S \X S :
        /\ r[1] <= r[2]
        /\ \A d \in r[1]..r[2] : d \in S
        /\ (r[1] - 1) \notin S
        /\ (r[2] + 1) \notin S}

RenderRun(r) ==
    IF r[1] = r[2] THEN str(r[1]) ELSE str(r[1]) \o <<"-">> \o str(r[2])

RECURSIVE RenderRuns(_)
\* The runs of R in ascending order, comma-joined.
RenderRuns(R) ==
    IF R = {} THEN <<>>
    ELSE LET first == CHOOSE r \in R : \A q \in R : r[1] <= q[1]
             rest == R \ {first}
         IN  IF rest = {} THEN RenderRun(first)
             ELSE RenderRun(first) \o <<",">> \o RenderRuns(rest)

\* C9: compress_days returns the comma-joined renderings, ascending, of the
\* maximal runs of consecutive integers of the de-duplicated days; the empty
\* list gives the empty string.
C9_CompressRendersRuns ==
    cd_pc = "done" => cd_out = RenderRuns(Runs(Range(cd_days)))

\* A list out of order with a duplicate, rendered as one two-digit run.
C9_Witness ==
    /\ cd_pc = "done"
    /\ cd_days = <<10, 9, 9>>
    /\ cd_out = <<"9", "-", "1", "0">>

RECURSIVE Split(_, _)
\* chars.split(ch), for chars that are not empty
Split(chars, ch) ==
    IF Find(chars, ch) = 0 THEN <<chars>>
    ELSE <<SubSeq(chars, 1, Find(chars, ch) - 1)>>
           \o Split(SubSeq(chars, Find(chars, ch) + 1, Len(chars)), ch)

\* The days one part of a compressed string stands for: "a-b" for a..b,
\* "a" for a.
Expand(part) ==
    IF Find(part, "-") = 0 THEN {ParseInt(part)}
    ELSE ParseInt(SubSeq(part, 1, Find(part, "-") - 1))
           .. ParseInt(SubSeq(part, Find(part, "-") + 1, Len(part)))

\* Split on commas and expand the ranges.
Decompress(chars) ==
    IF chars = <<>> THEN {}
    ELSE UNION {Expand(part) : part \in Range(Split(chars, ","))}

\* C10: decompressing what compress_days returned gives back exactly the
\* set of days it was given.
C10_RoundTrip == cd_pc = "done" => Decompress(cd_out) = Range(cd_days)

\* The set {1,2,3,7,9,10} went through compress_days and came back.
C10_Witness ==
    /\ cd_pc = "done"
    /\ cd_days = <<1, 2, 3, 7, 9, 10>>
    /\ cd_out = <<"1", "-", "3", ",", "7", ",", "9", "-", "1", "0">>
    /\ Decompress(cd_out) = {1, 2, 3, 7, 9, 10}

\* Every cached record priced at the returned minimum has its day listed.
AllAtMinimumListed ==
    \A ym \in DOMAIN cache : \A c \in Range(cache[ym]) :
        c.pts = ret.abs_min => c.day \in Listed(ym)

\* C13: pass 2 is complete: when scrape_route returns a defined absolute
\* minimum, every day of every month's cache with a record at that minimum
\* is listed for that month and so some month's list is not empty; and the
\* step from the end of pass 1 to the return changes neither the cache nor
\* the page on show (no fetch).
C13_PassTwoComplete ==
    /\ [](Returned /\ ret.abs_min # None =>
            /\ AllAtMinimumListed
            /\ \E ym \in MonthSet : Listed(ym) # {})
    /\ [][pc = "reduce" => cache' = cache /\ page' = page /\ shown' = shown]_vars

\* A route returned with two days of one month both at the minimum and both
\* listed, and a second month with a day at the minimum listed too.
C13_Witness ==
    /\ Returned
    /\ ret.abs_min # None
    /\ \E ym \in DOMAIN cache :
         /\ Cardinality({c.day : c \in {r \in Range(cache[ym]) : r.pts = ret.abs_min}}) = 2
         /\ Cardinality(Listed(ym)) = 2
         /\ \E other \in DOMAIN cache : other # ym /\ Listed(other) # {}

---------------------------------------------------------------------------
\* parse_cell and parse_current_month.

\* The text is what the contract calls an offer: it begins with digits and
\* holds a decimal number, digits with at most one dot, right before a k.
WellFormedOffer(text) ==
    /\ DayMatch(text) > 0
    /\ PointsStarts(text) # {}
    /\ FloatAccepts(PointsGroup(text))

\* C11: parse_cell never raises: every call returns a record or the
\* not-parseable value, the not-parseable value for every text that does not
\* begin with digits or holds no well-formed decimal number before a k, and
\* the rows returned for the month are those of the other cells.
C11_ParseCellNeverRaises ==
    pm_pc = "done" =>
        /\ \A k \in 1..Len(pm_texts) :
              /\ pm_calls[k].kind \in {"ok", "none"}
              /\ ~WellFormedOffer(strip(pm_texts[k]))
                     => pm_calls[k] = NotParseable
        /\ \A k \in 1..Len(pm_rows) :
              \E j \in 1..Len(pm_texts) : pm_calls[j] = Parsed(pm_rows[k])

\* The last day of the month, from the calendar: thirty days hath September.
LastDay(ym) ==
    LET common == <<31, 28, 31, 30, 31, 30, 31, 31, 30, 31, 30, 31>>
        leap == ym[1] \in {2024, 2028, 2032}
    IN  IF ym[2] = 2 /\ leap THEN 29 ELSE common[ym[2]]

\* The cells of the page that parsed, in page order.
ParsedCalls == SelectSeq(pm_calls, LAMBDA r : r.kind = "ok")

\* C12: every record parse_current_month returns for (year, month), which is
\* what is cached for it, has a day in 1..last day of that month, and the
\* records returned are exactly the parsed cells with such a day, in page
\* order: a parsed cell with day 0 or a day after the last is not among them.
C12_CachedDaysInMonth ==
    pm_pc = "done" =>
        /\ \A k \in 1..Len(pm_rows) :
              1 <= pm_rows[k].day /\ pm_rows[k].day <= LastDay(pm_ym)
        /\ LET InMonth(r) == r.cell.day \in 1..LastDay(pm_ym)
               kept == SelectSeq(ParsedCalls, InMonth)
           IN  pm_rows = [k \in 1..Len(kept) |-> kept[k].cell]

\* February 2026: the cell of day 29 parsed and was dropped, the cell of day 1
\* was kept.
C12_Witness ==
    /\ pm_pc = "done"
    /\ pm_ym = <<2026, 2>>
    /\ \E k \in 1..Len(pm_calls) : pm_calls[k] = Parsed(Cell(29, 7500, "$5.60"))
    /\ pm_rows = <<Cell(1, 4500, "$19")>>

=============================================================================
